---- MODULE Spec2Model ----
(***************************************************************************)
(* SeekGits: deterministic per-file encryption as a git clean/smudge       *)
(* filter.  The model covers the cipher (src/lib/crypto.ts), the manifest  *)
(* store (src/lib/secrets.ts), the attribute file                          *)
(* (src/lib/gitattributes.ts), the filter engine and the lifecycle         *)
(* commands.  Byte buffers are sequences of integers 0..255; text is a     *)
(* sequence of one-character strings.                                      *)
(***************************************************************************)
EXTENDS Integers, Sequences, FiniteSets, TLC

\* ------------------------------------------------------------------ bounds
\* Longest plaintext the cipher harness draws.
MaxLen == 2

\* ------------------------------------------------------- constants (types.ts)
AES_KEY_SIZE == 32
HMAC_KEY_SIZE == 32
FILE_KEY_SIZE == AES_KEY_SIZE + HMAC_KEY_SIZE
NONCE_SIZE == 32
AES_IV_SIZE == 16
\* Buffer.from('\0SEEKGITS\0')
MAGIC_HEADER == <<0, 83, 69, 69, 75, 71, 73, 84, 83, 0>>

\* ------------------------------------------------------------------ state
\* Cipher harness: the first and second encrypt call and the decrypt call.
VARIABLES enc1, enc2, dec

\* Repository and host:
\*   secrets  secrets.json on disk: absent, partly written, or a parsed config
\*   attrs    .gitattributes on disk: absent or its text
\*   workdir  the tracked-candidate paths that exist in the working directory
\*   index    the git index: staged bytes per path
\*   keyring  the secret key ids of the host's GPG keyring, in listing order
\*   cmd      the lifecycle command in progress (or the last one's exit code)
\*   run      the last filter invocation: arguments, stdout and exit code
VARIABLES secrets, attrs, workdir, index, keyring, cmd, run

\* Library harness: the last direct call of a config-store or attribute
\* function, with its arguments, its error and the files as they were before.
VARIABLES call

\* Host git: "ok", or "locked" while .git/index.lock exists (another git
\* process holds it, or one died holding it) and git commands that write the
\* index fail.
VARIABLES git

\* --------------------------------------------------------------- byte helpers
Min(a, b) == IF a < b THEN a ELSE b

\* Buffer.subarray(start, end): 0-based, end exclusive, clamped to the buffer.
SubArray(buf, start, end) == SubSeq(buf, Min(start, Len(buf)) + 1, Min(end, Len(buf)))

RECURSIVE BitXor(_, _, _)
BitXor(a, b, n) ==
  IF n = 0 THEN 0
  ELSE (((a % 2) + (b % 2)) % 2) + (2 * BitXor(a \div 2, b \div 2, n - 1))

\* XOR of two bytes.
Xor8(a, b) == BitXor(a, b, 8)

\* A digest of acc and the bytes buf[lo..hi], position-weighted; stands for
\* the compression function inside the library primitives (HMAC-SHA256, AES).
RECURSIVE Weigh(_, _, _)
Weigh(buf, lo, hi) ==
  IF lo > hi THEN 0
  ELSE IF lo = hi THEN ((buf[lo] + 1) * ((lo * lo) + (3 * lo) + 1)) % 65521
  ELSE LET mid == (lo + hi) \div 2
       IN  (Weigh(buf, lo, mid) + Weigh(buf, mid + 1, hi)) % 65521

Absorb(acc, buf) == ((acc * 251) + Weigh(buf, 1, Len(buf)) + Len(buf)) % 65521

\* createHmac('sha256', key).update(msg).digest(): a 32-byte value fixed by
\* (key, msg).
HmacSha256(key, msg) ==
  LET h == Absorb(Absorb(1, key), msg)
  IN  [i \in 1..NONCE_SIZE |-> (h + ((h \div 256) * i) + (7 * i)) % 256]

\* Keystream byte j of AES-256-CTR under (key, iv).
AesCtrKeystream(key, iv, j) ==
  LET s == Absorb(Absorb(5, key), iv)
  IN  (s + ((s \div 256) * j) + (13 * j)) % 256

\* createCipheriv('aes-256-ctr', key, iv) followed by update/final.  CTR mode
\* XORs the data with the keystream; the library throws when the key is not
\* 32 bytes or the iv is not 16 bytes.  Decryption is the same operation.
AesCtr(key, iv, data) ==
  IF Len(key) # AES_KEY_SIZE THEN [err |-> "InvalidKeyLength", val |-> <<>>]
  ELSE IF Len(iv) # AES_IV_SIZE THEN [err |-> "InvalidIV", val |-> <<>>]
  ELSE [err |-> "",
        val |-> [j \in 1..Len(data) |-> Xor8(data[j], AesCtrKeystream(key, iv, j))]]

\* ------------------------------------------------------------------ keys
\* A 64-byte key whose AES half is all a and whose HMAC half is all h.
Key(a, h) == [i \in 1..FILE_KEY_SIZE |-> IF i <= AES_KEY_SIZE THEN a ELSE h]

\* generateFileKey(): randomBytes(FILE_KEY_SIZE); the outcomes the model draws.
generateFileKey == {Key(1, 1), Key(2, 1)}

\* Keys handed to the cipher directly: the generated ones and one that shares
\* its AES half with Key(1, 1).
FileKeys == generateFileKey \cup {Key(1, 2)}

\* ------------------------------------------------------------------ cipher
\* splitFileKey: throws unless the key is exactly FILE_KEY_SIZE bytes.
splitFileKey(fileKey) ==
  IF Len(fileKey) # FILE_KEY_SIZE
  THEN [err |-> "InvalidFileKeySize", aesKey |-> <<>>, hmacKey |-> <<>>]
  ELSE [err |-> "",
        aesKey |-> SubArray(fileKey, 0, AES_KEY_SIZE),
        hmacKey |-> SubArray(fileKey, AES_KEY_SIZE, AES_KEY_SIZE + HMAC_KEY_SIZE)]

\* Variant: a nonce drawn afresh at each call (randomBytes) instead of derived
\* from the plaintext; the draw differs between the first and a later call.
computeNonce_random(hmacKey, plaintext) ==
  [i \in 1..NONCE_SIZE |-> IF enc1.done THEN (i * 5) % 256 ELSE (i * 3) % 256]

computeNonce(hmacKey, plaintext) == HmacSha256(hmacKey, plaintext)

\* The bytes of buf before its first zero byte (a C-string reading of buf).
RECURSIVE UpToZero(_, _)
UpToZero(buf, i) ==
  IF i > Len(buf) THEN buf
  ELSE IF buf[i] = 0 THEN SubSeq(buf, 1, i - 1)
  ELSE UpToZero(buf, i + 1)

\* Variant: the plaintext is cut at its first zero byte before encrypting.
encrypt_cstring(plaintext, fileKey) ==
  LET k == splitFileKey(fileKey)
      text == UpToZero(plaintext, 1) IN
  IF k.err # "" THEN [err |-> k.err, val |-> <<>>]
  ELSE LET nonce == HmacSha256(k.hmacKey, text)
           c == AesCtr(k.aesKey, SubArray(nonce, 0, AES_IV_SIZE), text)
       IN  IF c.err # "" THEN c
           ELSE [err |-> "", val |-> MAGIC_HEADER \o nonce \o c.val]

\* Variant: only the 16 iv bytes of the nonce are written to the frame.
encrypt_ivOnly(plaintext, fileKey) ==
  LET k == splitFileKey(fileKey) IN
  IF k.err # "" THEN [err |-> k.err, val |-> <<>>]
  ELSE LET nonce == HmacSha256(k.hmacKey, plaintext)
           iv == SubArray(nonce, 0, AES_IV_SIZE)
           c == AesCtr(k.aesKey, iv, plaintext)
       IN  IF c.err # "" THEN c
           ELSE [err |-> "", val |-> MAGIC_HEADER \o iv \o c.val]

encrypt(plaintext, fileKey) ==
  LET k == splitFileKey(fileKey) IN
  IF k.err # "" THEN [err |-> k.err, val |-> <<>>]
  ELSE LET nonce == computeNonce(k.hmacKey, plaintext)
           iv == SubArray(nonce, 0, AES_IV_SIZE)
           c == AesCtr(k.aesKey, iv, plaintext)
       IN  IF c.err # "" THEN c
           ELSE [err |-> "", val |-> MAGIC_HEADER \o nonce \o c.val]

\* Variant: the nonce is verified; decrypt throws when the HMAC of the result
\* under the given key is not the nonce of the frame.
decrypt_authenticated(encrypted, fileKey) ==
  IF SubArray(encrypted, 0, Len(MAGIC_HEADER)) # MAGIC_HEADER
  THEN [err |-> "MissingHeader", val |-> <<>>]
  ELSE LET k == splitFileKey(fileKey) IN
       IF k.err # "" THEN [err |-> k.err, val |-> <<>>]
       ELSE LET nonceStart == Len(MAGIC_HEADER)
                nonce == SubArray(encrypted, nonceStart, nonceStart + NONCE_SIZE)
                ciphertextStart == nonceStart + NONCE_SIZE
                ciphertext == SubArray(encrypted, ciphertextStart, Len(encrypted))
                iv == SubArray(nonce, 0, AES_IV_SIZE)
                plain == AesCtr(k.aesKey, iv, ciphertext)
            IN  IF plain.err # "" THEN plain
                ELSE IF HmacSha256(k.hmacKey, plain.val) # nonce
                THEN [err |-> "AuthenticationFailed", val |-> <<>>]
                ELSE plain

\* Variant: the ciphertext is taken to start after 16 nonce bytes, not 32.
decrypt_shortNonce(encrypted, fileKey) ==
  IF SubArray(encrypted, 0, Len(MAGIC_HEADER)) # MAGIC_HEADER
  THEN [err |-> "MissingHeader", val |-> <<>>]
  ELSE LET k == splitFileKey(fileKey) IN
       IF k.err # "" THEN [err |-> k.err, val |-> <<>>]
       ELSE LET nonceStart == Len(MAGIC_HEADER)
                nonce == SubArray(encrypted, nonceStart, nonceStart + NONCE_SIZE)
                ciphertext == SubArray(encrypted, nonceStart + AES_IV_SIZE, Len(encrypted))
            IN  AesCtr(k.aesKey, SubArray(nonce, 0, AES_IV_SIZE), ciphertext)

decrypt(encrypted, fileKey) ==
  IF SubArray(encrypted, 0, Len(MAGIC_HEADER)) # MAGIC_HEADER
  THEN [err |-> "MissingHeader", val |-> <<>>]
  ELSE LET k == splitFileKey(fileKey) IN
       IF k.err # "" THEN [err |-> k.err, val |-> <<>>]
       ELSE LET nonceStart == Len(MAGIC_HEADER)
                nonce == SubArray(encrypted, nonceStart, nonceStart + NONCE_SIZE)
                ciphertextStart == nonceStart + NONCE_SIZE
                ciphertext == SubArray(encrypted, ciphertextStart, Len(encrypted))
                iv == SubArray(nonce, 0, AES_IV_SIZE)
            IN  AesCtr(k.aesKey, iv, ciphertext)

isEncrypted(data) ==
  IF Len(data) < Len(MAGIC_HEADER) THEN FALSE
  ELSE SubArray(data, 0, Len(MAGIC_HEADER)) = MAGIC_HEADER

\* ------------------------------------------------------------ cipher harness
\* The cipher called as the tests of the repository call it: encrypt, encrypt
\* again, then decrypt the first frame.
cipherVars == <<enc1, enc2, dec>>

repoVars == <<secrets, attrs, workdir, index, keyring, cmd, run>>

vars == <<enc1, enc2, dec, secrets, attrs, workdir, index, keyring, cmd, run, call, git>>

\* Byte values the harness draws: a zero byte, an ASCII letter, a high byte.
SampleBytes == {0, 83, 255}

RECURSIVE SeqsUpTo(_, _)
SeqsUpTo(S, n) ==
  IF n = 0 THEN {<<>>}
  ELSE LET shorter == SeqsUpTo(S, n - 1)
       IN  shorter \cup {Append(q, b) : q \in {r \in shorter : Len(r) = n - 1}, b \in S}

Plaintexts == SeqsUpTo(SampleBytes, MaxLen)

NoCall == [done |-> FALSE, p |-> <<>>, k |-> <<>>, res |-> [err |-> "", val |-> <<>>]]

\* const encrypted = encrypt(plaintext, fileKey)
EncryptCall(p, k) ==
  /\ ~enc1.done
  /\ enc1' = [done |-> TRUE, p |-> p, k |-> k, res |-> encrypt(p, k)]
  /\ UNCHANGED <<enc2, dec>>
  /\ UNCHANGED <<repoVars, call, git>>

\* a second encrypt call, after the first
EncryptAgain(p, k) ==
  /\ enc1.done
  /\ ~enc2.done
  /\ enc2' = [done |-> TRUE, p |-> p, k |-> k, res |-> encrypt(p, k)]
  /\ UNCHANGED <<enc1, dec>>
  /\ UNCHANGED <<repoVars, call, git>>

\* const decrypted = decrypt(encrypted, fileKey)
DecryptCall(k) ==
  /\ enc1.done
  /\ ~dec.done
  /\ dec' = [done |-> TRUE, p |-> enc1.res.val, k |-> k, res |-> decrypt(enc1.res.val, k)]
  /\ UNCHANGED <<enc1, enc2>>
  /\ UNCHANGED <<repoVars, call, git>>

CipherNext ==
  \/ \E p \in Plaintexts, k \in FileKeys : EncryptCall(p, k)
  \/ \E p \in Plaintexts, k \in FileKeys : EncryptAgain(p, k)
  \/ \E k \in FileKeys : DecryptCall(k)

\* ------------------------------------------------------------------ text
\* Character codes of the characters the model writes to stdout.
Ord ==
  ("\n" :> 10) @@ (" " :> 32) @@ ("." :> 46) @@ ("/" :> 47) @@ (":" :> 58) @@ ("=" :> 61) @@
  ("C" :> 67) @@ ("D" :> 68) @@ ("E" :> 69) @@ ("N" :> 78) @@ ("P" :> 80) @@
  ("R" :> 82) @@ ("T" :> 84) @@ ("Y" :> 89) @@ ("[" :> 91) @@ ("]" :> 93) @@
  ("a" :> 97) @@ ("b" :> 98) @@ ("c" :> 99) @@ ("d" :> 100) @@ ("e" :> 101) @@
  ("f" :> 102) @@ ("g" :> 103) @@ ("i" :> 105) @@ ("k" :> 107) @@ ("l" :> 108) @@
  ("n" :> 110) @@ ("o" :> 111) @@ ("p" :> 112) @@ ("r" :> 114) @@ ("s" :> 115) @@
  ("t" :> 116) @@ ("u" :> 117) @@ ("x" :> 120) @@ ("y" :> 121)

\* Buffer.from(text): the bytes of an ASCII text.
BufferFrom(text) == [i \in 1..Len(text) |-> Ord[text[i]]]

SetMin(S) == CHOOSE x \in S : \A y \in S : x <= y

\* The elements of a set of integers in increasing order.
Sorted(S) ==
  [k \in 1..Cardinality(S) |-> CHOOSE x \in S : Cardinality({y \in S : y < x}) = k - 1]

\* text.split(sep) for a one-character separator.
Split(text, sep) ==
  LET seps == {i \in 1..Len(text) : text[i] = sep}
      starts == Sorted({1} \cup {i + 1 : i \in seps})
  IN  [k \in 1..Len(starts) |->
         SubSeq(text, starts[k],
                SetMin({i \in seps : i >= starts[k]} \cup {Len(text) + 1}) - 1)]

\* line.trim() !== ''
NotBlank(line) == \E i \in 1..Len(line) : line[i] \notin {" ", "\t", "\n", "\r"}

\* lines.join('\n') + '\n', for a list that is not empty
RECURSIVE JoinLines(_)
JoinLines(lines) ==
  IF lines = <<>> THEN <<>>
  ELSE Head(lines) \o <<"\n">> \o JoinLines(Tail(lines))

\* line.startsWith(prefix)
StartsWith(line, prefix) ==
  Len(line) >= Len(prefix) /\ SubSeq(line, 1, Len(prefix)) = prefix

\* line.includes(needle)
Includes(line, needle) ==
  \E i \in 1..(Len(line) - Len(needle) + 1) : SubSeq(line, i, i + Len(needle) - 1) = needle

\* Array.filter: the elements of seq at the indices in `keep`, in order.
Filter(seq, keep) ==
  LET kept == Sorted(keep)
  IN  [k \in 1..Len(kept) |-> seq[kept[k]]]

\* ---------------------------------------------------------------- inputs
\* Paths given on the command line: a plain name and a name with a space.
Paths == {<<"e">>, <<"e", " ", "x">>}

\* GPG identities; every host has imported the public keys of both.
Recipients == {"alice", "bob"}
PublicKeys == Recipients

\* Keyrings a host may have: no secret key, alice's, or bob's.
Keyrings == {<<>>, <<"alice">>, <<"bob">>}

\* Content of every working-directory file.
WorkContent == <<83>>

\* --------------------------------------------------------------- gpg.ts
\* gpgEncrypt(data, recipient): the blob only `recipient` can open; throws
\* when gpg knows no public key for the recipient.
gpgEncrypt(data, recipient) ==
  IF recipient \notin PublicKeys THEN [err |-> "NoPublicKey", val |-> [to |-> "", data |-> <<>>]]
  ELSE [err |-> "", val |-> [to |-> recipient, data |-> data]]

\* gpgDecrypt(armored): the wrapped bytes when the keyring holds the secret
\* key of the blob's recipient; throws otherwise.
gpgDecrypt(armored) ==
  IF \E i \in 1..Len(keyring) : keyring[i] = armored.to
  THEN [err |-> "", val |-> armored.data]
  ELSE [err |-> "NoSecretKey", val |-> <<>>]

\* getDefaultKeyId(): the first 'sec' record, or null ("" here).
getDefaultKeyId == IF keyring = <<>> THEN "" ELSE keyring[1]

\* verifyKeyExists(keyIdentifier)
verifyKeyExists(keyIdentifier) == keyIdentifier \in PublicKeys

\* ------------------------------------------------------------ secrets.ts
\* An object's own keys keep insertion order, so `files` and `keys` are lists.
FindFile(files, file) ==
  LET hits == {i \in 1..Len(files) : files[i].path = file}
  IN  IF hits = {} THEN 0 ELSE SetMin(hits)

FindKey(keys, recipient) ==
  LET hits == {i \in 1..Len(keys) : keys[i].recipient = recipient}
  IN  IF hits = {} THEN 0 ELSE SetMin(hits)

\* A name every object read by JSON.parse inherits from Object.prototype:
\* config.files[name] is then a function, which is truthy.
ObjectPrototypeNames == {<<"t", "o", "S", "t", "r", "i", "n", "g">>}

\* The truth value of config.files[file]
HasFile(files, file) == FindFile(files, file) # 0 \/ file \in ObjectPrototypeNames

NoSecrets == [st |-> "absent", version |-> 0, files |-> <<>>]

\* secretsExists(): access(secrets.json) succeeds
secretsExists == secrets.st # "absent"

\* loadSecrets(): readFile + JSON.parse; throws when the file is absent or
\* does not parse (a file another process is still writing).
loadSecrets ==
  IF secrets.st = "absent" THEN [err |-> "NotFound", version |-> 0, files |-> <<>>]
  ELSE IF secrets.st = "partial" THEN [err |-> "FailedToRead", version |-> 0, files |-> <<>>]
  ELSE [err |-> "", version |-> secrets.version, files |-> secrets.files]

\* isFileTracked(file): !!config.files[file]
isFileTracked(file) ==
  LET config == loadSecrets
  IN  IF config.err # "" THEN [err |-> config.err, val |-> FALSE]
      ELSE [err |-> "", val |-> HasFile(config.files, file)]

\* getTrackedFiles is Object.keys(config.files); here unsorted, as a set.
TrackedPaths == {secrets.files[i].path : i \in 1..Len(secrets.files)}

\* Variant: only the first wrapped key is tried.
getFileKey_firstOnly(file) ==
  LET config == loadSecrets IN
  IF config.err # "" THEN [err |-> config.err, val |-> <<>>, tried |-> <<>>]
  ELSE LET at == FindFile(config.files, file) IN
       IF ~HasFile(config.files, file) THEN [err |-> "NotTracked", val |-> <<>>, tried |-> <<>>]
       ELSE IF at = 0 THEN [err |-> "TypeError", val |-> <<>>, tried |-> <<>>]
       ELSE LET keys == config.files[at].keys
                first == gpgDecrypt(keys[1].wrapped)
            IN  IF first.err # "" THEN [err |-> "NoAccess", val |-> <<>>, tried |-> <<keys[1].recipient>>]
                ELSE [err |-> "", val |-> first.val, tried |-> <<>>]

\* getFileKey(file): the first wrapped key, in key order, that gpg can open.
getFileKey(file) ==
  LET config == loadSecrets IN
  IF config.err # "" THEN [err |-> config.err, val |-> <<>>, tried |-> <<>>]
  ELSE LET at == FindFile(config.files, file) IN
       IF ~HasFile(config.files, file) THEN [err |-> "NotTracked", val |-> <<>>, tried |-> <<>>]
       ELSE IF at = 0 THEN [err |-> "TypeError", val |-> <<>>, tried |-> <<>>]
       ELSE LET keys == config.files[at].keys
                recipients == [i \in 1..Len(keys) |-> keys[i].recipient]
                opens == {i \in 1..Len(keys) : gpgDecrypt(keys[i].wrapped).err = ""}
            IN  IF opens = {} THEN [err |-> "NoAccess", val |-> <<>>, tried |-> recipients]
                ELSE [err |-> "", val |-> gpgDecrypt(keys[SetMin(opens)].wrapped).val,
                      tried |-> <<>>]

\* getRecipients(file): Object.keys(fileConfig.keys), in insertion order
getRecipients(file) ==
  LET config == loadSecrets IN
  IF config.err # "" THEN [err |-> config.err, val |-> <<>>]
  ELSE LET at == FindFile(config.files, file) IN
       IF ~HasFile(config.files, file) THEN [err |-> "NotTracked", val |-> <<>>]
       ELSE IF at = 0 THEN [err |-> "TypeError", val |-> <<>>]
       ELSE [err |-> "",
             val |-> [i \in 1..Len(config.files[at].keys) |-> config.files[at].keys[i].recipient]]

\* One member line of the JSON text: its nesting depth, its key and its value
\* (a number or a string; 0 and the empty blob when the value is an object).
JsonLine(depth, key, number, text) ==
  [depth |-> depth, key |-> key, number |-> number, text |-> text]

NoText == [to |-> "", data |-> <<>>]

\* The member lines of one files entry: the path, "keys", the recipients.
FileLines(entry) ==
  <<JsonLine(2, entry.path, 0, NoText), JsonLine(3, <<"keys">>, 0, NoText)>>
    \o [j \in 1..Len(entry.keys) |->
          JsonLine(4, <<entry.keys[j].recipient>>, 0, entry.keys[j].wrapped)]

RECURSIVE FilesLines(_)
FilesLines(files) ==
  IF files = <<>> THEN <<>> ELSE FileLines(Head(files)) \o FilesLines(Tail(files))

\* JSON.stringify(config, null, 2) + '\n': the members in the order the
\* object holds them, which is the order they were inserted in.
JsonStringify(version, files) ==
  <<JsonLine(1, <<"version">>, version, NoText), JsonLine(1, <<"files">>, 0, NoText)>>
    \o FilesLines(files)

\* addTrackedFile(file, recipient, encryptedFileKey): the config to save
addTrackedFile(file, recipient, encryptedFileKey) ==
  LET config == loadSecrets IN
  IF config.err # "" THEN [err |-> config.err, files |-> <<>>]
  ELSE IF HasFile(config.files, file) THEN [err |-> "AlreadyTracked", files |-> <<>>]
  ELSE [err |-> "",
        files |-> Append(config.files,
                         [path |-> file,
                          keys |-> <<[recipient |-> recipient, wrapped |-> encryptedFileKey]>>])]

\* addRecipient(file, recipient, encryptedFileKey): the config to save
addRecipient(file, recipient, encryptedFileKey) ==
  LET config == loadSecrets IN
  IF config.err # "" THEN [err |-> config.err, files |-> <<>>]
  ELSE LET at == FindFile(config.files, file) IN
       IF ~HasFile(config.files, file) THEN [err |-> "NotTracked", files |-> <<>>]
       ELSE IF at = 0 THEN [err |-> "TypeError", files |-> <<>>]
       ELSE IF FindKey(config.files[at].keys, recipient) # 0
       THEN [err |-> "RecipientDuplicate", files |-> <<>>]
       ELSE [err |-> "",
             files |-> [config.files EXCEPT ![at].keys =
                          Append(@, [recipient |-> recipient, wrapped |-> encryptedFileKey])]]

\* removeTrackedFile(file): the config to save
removeTrackedFile(file) ==
  LET config == loadSecrets IN
  IF config.err # "" THEN [err |-> config.err, files |-> <<>>]
  ELSE LET at == FindFile(config.files, file) IN
       IF ~HasFile(config.files, file) THEN [err |-> "NotTracked", files |-> <<>>]
       ELSE IF at = 0 THEN [err |-> "", files |-> config.files]
       ELSE [err |-> "",
             files |-> SubSeq(config.files, 1, at - 1)
                         \o SubSeq(config.files, at + 1, Len(config.files))]

\* ------------------------------------------------------- gitattributes.ts
NoAttrs == [exists |-> FALSE, content |-> <<>>]

\* loadGitattributes(): the text, or '' when the file cannot be read
loadGitattributes == IF attrs.exists THEN attrs.content ELSE <<>>

\* parseLines(content)
parseLines(content) ==
  LET lines == Split(content, "\n")
  IN  Filter(lines, {i \in 1..Len(lines) : NotBlank(lines[i])})

FILTER_TOKEN == <<"f", "i", "l", "t", "e", "r", "=", "s", "e", "e", "k", "g", "i", "t", "s">>

\* `${file} filter=seekgits diff=seekgits`
filterLine(file) ==
  file \o <<" ">> \o FILTER_TOKEN
       \o <<" ", "d", "i", "f", "f", "=", "s", "e", "e", "k", "g", "i", "t", "s">>

\* Variant: the filter line is looked for anywhere in the text.
hasFilter_substring(file) == Includes(loadGitattributes, filterLine(file))

\* hasFilter(file)
hasFilter(file) ==
  LET lines == parseLines(loadGitattributes)
  IN  \E i \in 1..Len(lines) : lines[i] = filterLine(file)

\* addFilter(file): the attribute file afterwards
addFilter(file) ==
  LET lines == parseLines(loadGitattributes) IN
  IF \E i \in 1..Len(lines) : lines[i] = filterLine(file) THEN attrs
  ELSE [exists |-> TRUE, content |-> JoinLines(Append(lines, filterLine(file)))]

\* removeFilter(file): the attribute file afterwards
removeFilter(file) ==
  LET lines == parseLines(loadGitattributes)
      Keep(line) == ~(StartsWith(line, file \o <<" ">>) /\ Includes(line, FILTER_TOKEN))
      filtered == Filter(lines, {i \in 1..Len(lines) : Keep(lines[i])})
  IN  IF Len(filtered) > 0 THEN [exists |-> TRUE, content |-> JoinLines(filtered)]
      ELSE NoAttrs

\* line.split(' ')[0]
FirstToken(line) ==
  SubSeq(line, 1, SetMin({i \in 1..Len(line) : line[i] = " "} \cup {Len(line) + 1}) - 1)

\* getFilteredFiles()
getFilteredFiles ==
  LET lines == parseLines(loadGitattributes)
      Listed(line) == Includes(line, FILTER_TOKEN) /\ FirstToken(line) # <<>>
      hits == Filter(lines, {i \in 1..Len(lines) : Listed(lines[i])})
  IN  [i \in 1..Len(hits) |-> FirstToken(hits[i])]

\* ------------------------------------------------------- filter engine
\* The result of one filter process: the bytes on stdout, the exit code and
\* the error it met ("" when none; a caught error leaves exit at 0).
Passthrough(input) == [out |-> input, exit |-> 0, err |-> ""]

\* An exception nobody catches: nothing was written, the process exits 1.
Uncaught(err) == [out |-> <<>>, exit |-> 1, err |-> err]

\* `[ENCRYPTED: Cannot decrypt ${file}]\n`
placeholder(file) ==
  BufferFrom(<<"[", "E", "N", "C", "R", "Y", "P", "T", "E", "D", ":", " ",
               "C", "a", "n", "n", "o", "t", " ",
               "d", "e", "c", "r", "y", "p", "t", " ">> \o file \o <<"]", "\n">>)

\* Variant: no pass-through of input that is already a frame.
handleEncrypt_noGuard(file, plaintext) ==
  LET fileKey == getFileKey(file) IN
  IF fileKey.err # "" THEN [out |-> plaintext, exit |-> 0, err |-> fileKey.err]
  ELSE LET encrypted == encrypt(plaintext, fileKey.val) IN
       IF encrypted.err # "" THEN [out |-> plaintext, exit |-> 0, err |-> encrypted.err]
       ELSE [out |-> encrypted.val, exit |-> 0, err |-> ""]

handleEncrypt(file, plaintext) ==
  IF isEncrypted(plaintext) THEN Passthrough(plaintext)
  ELSE LET fileKey == getFileKey(file) IN
       IF fileKey.err # "" THEN [out |-> plaintext, exit |-> 0, err |-> fileKey.err]
       ELSE LET encrypted == encrypt(plaintext, fileKey.val) IN
            IF encrypted.err # "" THEN [out |-> plaintext, exit |-> 0, err |-> encrypted.err]
            ELSE [out |-> encrypted.val, exit |-> 0, err |-> ""]

\* Variant: a frame that cannot be decrypted is written through as it came.
handleDecrypt_writesFrame(file, ciphertext) ==
  IF ~isEncrypted(ciphertext) THEN Passthrough(ciphertext)
  ELSE LET fileKey == getFileKey(file) IN
       IF fileKey.err # "" THEN [out |-> ciphertext, exit |-> 0, err |-> fileKey.err]
       ELSE LET decrypted == decrypt(ciphertext, fileKey.val) IN
            IF decrypted.err # "" THEN [out |-> ciphertext, exit |-> 0, err |-> decrypted.err]
            ELSE [out |-> decrypted.val, exit |-> 0, err |-> ""]

handleDecrypt(file, ciphertext) ==
  IF ~isEncrypted(ciphertext) THEN Passthrough(ciphertext)
  ELSE LET fileKey == getFileKey(file) IN
       IF fileKey.err # "" THEN [out |-> placeholder(file), exit |-> 0, err |-> fileKey.err]
       ELSE LET decrypted == decrypt(ciphertext, fileKey.val) IN
            IF decrypted.err # ""
            THEN [out |-> placeholder(file), exit |-> 0, err |-> decrypted.err]
            ELSE [out |-> decrypted.val, exit |-> 0, err |-> ""]

\* filterCommand(action, file, tempfile?): input is stdin or the temp file.
filterCommand(action, file, input) ==
  IF ~secretsExists THEN Passthrough(input)
  ELSE LET tracked == isFileTracked(file) IN
       IF tracked.err # "" THEN Uncaught(tracked.err)
       ELSE IF ~tracked.val THEN Passthrough(input)
       ELSE IF action = "encrypt" THEN handleEncrypt(file, input)
       ELSE handleDecrypt(file, input)

\* ------------------------------------------------------------- host git
GITATTRIBUTES == <<".", "g", "i", "t", "a", "t", "t", "r", "i", "b", "u", "t", "e", "s">>

NoEntry == [present |-> FALSE, data |-> <<>>]

\* Whether git applies the seekgits filter to `file`: an attribute line whose
\* pattern (its first token) is the path and that sets filter=seekgits.
gitFilterApplies(file) ==
  LET lines == parseLines(loadGitattributes)
  IN  \E i \in 1..Len(lines) :
        LET tokens == Split(lines[i], " ")
        IN  /\ tokens[1] = file
            /\ \E t \in 2..Len(tokens) : tokens[t] = FILTER_TOKEN

\* What `git add` stores for a working file: the clean filter's stdout when
\* the filter applies (the add fails when the filter exits non-zero), the
\* file's bytes otherwise.
stagedBytes(file) ==
  IF gitFilterApplies(file)
  THEN LET r == filterCommand("encrypt", file, WorkContent)
       IN  [ok |-> r.exit = 0, data |-> r.out]
  ELSE [ok |-> TRUE, data |-> WorkContent]

\* execGit(args) of a command that writes the index: always resolves, with
\* success false when git exits non-zero.
execGit == [success |-> git = "ok"]

\* The file a path names: the operating system and git read "./e" as "e".
Resolve(file) ==
  IF Len(file) > 2 /\ SubSeq(file, 1, 2) = <<".", "/">>
  THEN SubSeq(file, 3, Len(file))
  ELSE file

\* access(file) resolves
access(file) == Resolve(file) \in workdir

\* gitAdd('.gitattributes') on index ix
gitAdd(ix) ==
  IF execGit.success /\ attrs.exists
  THEN [ix EXCEPT ![GITATTRIBUTES] = [present |-> TRUE, data |-> BufferFrom(attrs.content)]]
  ELSE ix

\* gitAddRenormalize(file) on index ix: --renormalize implies -u, so only a
\* path the index already holds is cleaned and staged again.
gitAddRenormalize(ix, file) ==
  LET path == Resolve(file) IN
  IF execGit.success /\ ix[path].present /\ path \in workdir /\ stagedBytes(path).ok
  THEN [ix EXCEPT ![path] = [present |-> TRUE, data |-> stagedBytes(path).data]]
  ELSE ix

\* clearGitIndexEntry(file) on index ix: git rm --cached --ignore-unmatch
clearGitIndexEntry(ix, file) ==
  IF execGit.success THEN [ix EXCEPT ![Resolve(file)] = NoEntry] ELSE ix

\* --------------------------------------------------- lifecycle commands
Idle(code) == [op |-> "idle", file |-> <<>>, pending |-> <<>>, exit |-> code]

\* writeFile(secrets.json) has opened and truncated the file; `pending` is
\* the config still to be written.
Saving(op, file, files) == [op |-> op, file |-> file, pending |-> files, exit |-> 0]

Truncated == [st |-> "partial", version |-> 0, files |-> <<>>]

Written(files) == [st |-> "ok", version |-> 1, files |-> files]

\* The command printed an error and left with exit code 1, changing nothing.
Fails ==
  /\ cmd' = Idle(1)
  /\ UNCHANGED <<secrets, attrs, workdir, index, keyring, run>>

\* initSecrets(), reached when secrets.json does not exist yet: saveSecrets
\* starts writing {version: 1, files: {}}.
InitSecrets ==
  /\ cmd.op = "idle"
  /\ ~secretsExists
  /\ secrets' = Truncated
  /\ cmd' = Saving("init", <<>>, <<>>)
  /\ UNCHANGED <<attrs, workdir, index, keyring, run>>

InitSaved ==
  /\ cmd.op = "init"
  /\ secrets' = Written(cmd.pending)
  /\ cmd' = Idle(0)
  /\ UNCHANGED <<attrs, workdir, index, keyring, run>>

\* Variant: the attribute line is appended before the key is wrapped, so a
\* failed wrap leaves it behind.
EncryptCommand_filterFirst(file) ==
  /\ cmd.op = "idle"
  /\ IF ~secretsExists THEN Fails
     ELSE IF ~access(file) THEN Fails
     ELSE IF isFileTracked(file).err # "" \/ isFileTracked(file).val THEN Fails
     ELSE IF getDefaultKeyId = "" THEN Fails
     ELSE \E fileKey \in generateFileKey :
            LET keyId == getDefaultKeyId
                encryptedFileKey == gpgEncrypt(fileKey, keyId)
                config == addTrackedFile(file, keyId, encryptedFileKey.val)
            IN  IF encryptedFileKey.err # "" \/ config.err # ""
                THEN /\ cmd' = Idle(1)
                     /\ attrs' = addFilter(file)
                     /\ UNCHANGED <<secrets, workdir, index, keyring, run>>
                ELSE /\ secrets' = Truncated
                     /\ cmd' = Saving("encrypt", file, config.files)
                     /\ UNCHANGED <<attrs, workdir, index, keyring, run>>

\* encryptCommand(file), up to the start of the manifest write
EncryptCommand(file) ==
  /\ cmd.op = "idle"
  /\ IF ~secretsExists THEN Fails
     ELSE IF ~access(file) THEN Fails
     ELSE IF isFileTracked(file).err # "" \/ isFileTracked(file).val THEN Fails
     ELSE IF getDefaultKeyId = "" THEN Fails
     ELSE \E fileKey \in generateFileKey :
            LET keyId == getDefaultKeyId
                encryptedFileKey == gpgEncrypt(fileKey, keyId)
                config == addTrackedFile(file, keyId, encryptedFileKey.val)
            IN  IF encryptedFileKey.err # "" \/ config.err # "" THEN Fails
                ELSE /\ secrets' = Truncated
                     /\ cmd' = Saving("encrypt", file, config.files)
                     /\ UNCHANGED <<attrs, workdir, index, keyring, run>>

\* encryptCommand(file): the manifest write ends, then addFilter(file)
EncryptSaved ==
  /\ cmd.op = "encrypt"
  /\ secrets' = Written(cmd.pending)
  /\ attrs' = addFilter(cmd.file)
  /\ cmd' = [cmd EXCEPT !.op = "stage"]
  /\ UNCHANGED <<workdir, index, keyring, run>>

\* encryptCommand(file): gitAdd('.gitattributes'), gitAddRenormalize(file)
EncryptStage ==
  /\ cmd.op = "stage"
  /\ index' = gitAddRenormalize(gitAdd(index), cmd.file)
  /\ cmd' = Idle(0)
  /\ UNCHANGED <<secrets, attrs, workdir, keyring, run>>

\* Variant: the new recipient gets a freshly generated key instead of the
\* path's FileKey, whether or not the caller can unwrap it.
ShareCommand_freshKey(file, gpgKey) ==
  /\ cmd.op = "idle"
  /\ IF ~secretsExists THEN Fails
     ELSE IF isFileTracked(file).err # "" \/ ~isFileTracked(file).val THEN Fails
     ELSE IF ~verifyKeyExists(gpgKey) THEN Fails
     ELSE \E fileKey \in generateFileKey :
            LET encryptedFileKey == gpgEncrypt(fileKey, gpgKey)
                config == addRecipient(file, gpgKey, encryptedFileKey.val)
            IN  IF encryptedFileKey.err # "" \/ config.err # "" THEN Fails
                ELSE /\ secrets' = Truncated
                     /\ cmd' = Saving("share", file, config.files)
                     /\ UNCHANGED <<attrs, workdir, index, keyring, run>>

\* shareCommand(file, gpgKey), up to the start of the manifest write
ShareCommand(file, gpgKey) ==
  /\ cmd.op = "idle"
  /\ IF ~secretsExists THEN Fails
     ELSE IF isFileTracked(file).err # "" \/ ~isFileTracked(file).val THEN Fails
     ELSE IF ~verifyKeyExists(gpgKey) THEN Fails
     ELSE LET fileKey == getFileKey(file) IN
          IF fileKey.err # "" THEN Fails
          ELSE LET encryptedFileKey == gpgEncrypt(fileKey.val, gpgKey)
                   config == addRecipient(file, gpgKey, encryptedFileKey.val)
               IN  IF encryptedFileKey.err # "" \/ config.err # "" THEN Fails
                   ELSE /\ secrets' = Truncated
                        /\ cmd' = Saving("share", file, config.files)
                        /\ UNCHANGED <<attrs, workdir, index, keyring, run>>

\* shareCommand, from the end of the manifest write
ShareSaved ==
  /\ cmd.op = "share"
  /\ secrets' = Written(cmd.pending)
  /\ cmd' = Idle(0)
  /\ UNCHANGED <<attrs, workdir, index, keyring, run>>

\* removeCommand(file), up to the start of the manifest write
RemoveCommand(file) ==
  /\ cmd.op = "idle"
  /\ IF ~secretsExists THEN Fails
     ELSE IF isFileTracked(file).err # "" \/ ~isFileTracked(file).val THEN Fails
     ELSE LET config == removeTrackedFile(file) IN
          IF config.err # "" THEN Fails
          ELSE /\ secrets' = Truncated
               /\ cmd' = Saving("remove", file, config.files)
               /\ UNCHANGED <<attrs, workdir, index, keyring, run>>

\* removeCommand, from the end of the manifest write
RemoveSaved ==
  /\ cmd.op = "remove"
  /\ secrets' = Written(cmd.pending)
  /\ attrs' = removeFilter(cmd.file)
  /\ index' = clearGitIndexEntry(index, cmd.file)
  /\ workdir' = workdir \ {Resolve(cmd.file)}
  /\ cmd' = Idle(0)
  /\ UNCHANGED <<keyring, run>>

\* ---------------------------------------------------------- host events
\* Inputs git hands to the filter in a run: a plaintext and a complete frame.
FilterInputs == {WorkContent, encrypt(WorkContent, Key(1, 1)).val}

NoRun ==
  [done |-> FALSE, action |-> "", file |-> <<>>, input |-> <<>>,
   out |-> <<>>, exit |-> 0, err |-> ""]

\* Variant: the filter keeps the output of its last invocation and answers
\* from it when it is asked for the same action and path again.
FilterCommand_cached(action, file, input) ==
  /\ LET r == IF run.done /\ run.action = action /\ run.file = file
              THEN [out |-> run.out, exit |-> run.exit, err |-> run.err]
              ELSE filterCommand(action, file, input)
     IN  run' = [done |-> TRUE, action |-> action, file |-> file, input |-> input,
                 out |-> r.out, exit |-> r.exit, err |-> r.err]
  /\ UNCHANGED <<secrets, attrs, workdir, index, keyring, cmd>>

\* git (or a user) runs `seekgits filter <action> <file>` while the lifecycle
\* command, if any, is wherever it is.
FilterCommand(action, file, input) ==
  /\ LET r == filterCommand(action, file, input)
     IN  run' = [done |-> TRUE, action |-> action, file |-> file, input |-> input,
                 out |-> r.out, exit |-> r.exit, err |-> r.err]
  /\ UNCHANGED <<secrets, attrs, workdir, index, keyring, cmd>>

\* The repository is used from a host with another keyring.
SwitchHost(k) ==
  /\ cmd.op = "idle"
  /\ k # keyring
  /\ keyring' = k
  /\ UNCHANGED <<secrets, attrs, workdir, index, cmd, run>>

\* ------------------------------------------------- attribute harness
\* The attribute functions called directly on an attribute file of any
\* content, as the tests do with saveGitattributes(content).
MaxLines == 2

\* Paths of the harness: "e" ends "xe" and begins "ex".
AttrPaths == {<<"e">>, <<"x", "e">>, <<"e", "x">>}

\* Lines a user's attribute file may hold: the tool's own lines, a line
\* separated by a tab, a line of another tool, a blank line.
AttrLines ==
  {filterLine(f) : f \in AttrPaths}
    \cup {<<"e", "\t">> \o FILTER_TOKEN, <<"e", " ", "t", "e", "x", "t">>, <<>>}

\* Texts of up to MaxLines lines, with and without the final newline.
AttrTexts ==
  LET lists == SeqsUpTo(AttrLines, MaxLines)
  IN  {JoinLines(l) : l \in lists}
        \cup {SubSeq(JoinLines(l), 1, Len(JoinLines(l)) - 1) : l \in lists \ {<<>>}}

NoLibCall ==
  [op |-> "", file |-> <<>>, recipient |-> "", wrapped |-> [to |-> "", data |-> <<>>],
   err |-> "", attrs |-> NoAttrs, secrets |-> NoSecrets]

\* saveGitattributes(content)
SaveGitattributes(content) ==
  /\ call.op = ""
  /\ attrs' = [exists |-> TRUE, content |-> content]
  /\ call' = [NoLibCall EXCEPT !.op = "saveGitattributes"]
  /\ UNCHANGED <<secrets, workdir, index, keyring, cmd, run>>

\* await addFilter(file)
AddFilter(file) ==
  /\ attrs' = addFilter(file)
  /\ call' = [NoLibCall EXCEPT !.op = "addFilter", !.file = file, !.attrs = attrs]
  /\ UNCHANGED <<secrets, workdir, index, keyring, cmd, run>>

\* await removeFilter(file)
RemoveFilter(file) ==
  /\ attrs' = removeFilter(file)
  /\ call' = [NoLibCall EXCEPT !.op = "removeFilter", !.file = file, !.attrs = attrs]
  /\ UNCHANGED <<secrets, workdir, index, keyring, cmd, run>>

AttrNext ==
  \/ \E content \in AttrTexts : SaveGitattributes(content) /\ UNCHANGED <<cipherVars, git>>
  \/ \E file \in AttrPaths : AddFilter(file) /\ UNCHANGED <<cipherVars, git>>
  \/ \E file \in AttrPaths : RemoveFilter(file) /\ UNCHANGED <<cipherVars, git>>

CipherInit ==
  /\ enc1 = NoCall
  /\ enc2 = NoCall
  /\ dec = NoCall

\* ---------------------------------------------------- config-store harness
\* The config-store functions called directly, one call at a time, on a
\* manifest made by initSecrets or found in the checked-out repository.
StorePaths == {<<"e">>, <<"x", "e">>} \cup ObjectPrototypeNames

\* Hosts of the harness: no secret key, one, or both.
StoreKeyrings == Keyrings \cup {<<"alice", "bob">>}

\* Versions of a manifest found on disk that this tool did not write: none
\* (0, no version member) and a later one.
ForeignVersions == {0, 2}

\* saveSecrets(config) of a config that loadSecrets returned and a mutation
\* changed: the version is written back as it was read.
Saved(files) == [st |-> "ok", version |-> loadSecrets.version, files |-> files]

StoreCall(op, file, recipient, wrapped, err) ==
  [NoLibCall EXCEPT !.op = op, !.file = file, !.recipient = recipient,
                    !.wrapped = wrapped, !.err = err, !.secrets = secrets]

\* await initSecrets()
InitSecretsCall ==
  /\ ~secretsExists
  /\ secrets' = Written(<<>>)
  /\ call' = [NoLibCall EXCEPT !.op = "initSecrets"]
  /\ UNCHANGED <<attrs, workdir, index, keyring, cmd, run>>

\* The repository was checked out with a secrets.json of another version.
ManifestOnDisk(version) ==
  /\ ~secretsExists
  /\ secrets' = [st |-> "ok", version |-> version, files |-> <<>>]
  /\ call' = [NoLibCall EXCEPT !.op = "checkout"]
  /\ UNCHANGED <<attrs, workdir, index, keyring, cmd, run>>

\* await addTrackedFile(file, recipient, await gpgEncrypt(fileKey, recipient))
AddTrackedFile(file, recipient, fileKey) ==
  LET wrapped == gpgEncrypt(fileKey, recipient).val
      config == addTrackedFile(file, recipient, wrapped)
  IN  /\ secrets' = IF config.err = "" THEN Saved(config.files) ELSE secrets
      /\ call' = StoreCall("addTrackedFile", file, recipient, wrapped, config.err)
      /\ UNCHANGED <<attrs, workdir, index, keyring, cmd, run>>

\* await addRecipient(file, recipient, await gpgEncrypt(fileKey, recipient))
AddRecipient(file, recipient, fileKey) ==
  LET wrapped == gpgEncrypt(fileKey, recipient).val
      config == addRecipient(file, recipient, wrapped)
  IN  /\ secrets' = IF config.err = "" THEN Saved(config.files) ELSE secrets
      /\ call' = StoreCall("addRecipient", file, recipient, wrapped, config.err)
      /\ UNCHANGED <<attrs, workdir, index, keyring, cmd, run>>

\* await removeTrackedFile(file)
RemoveTrackedFile(file) ==
  LET config == removeTrackedFile(file)
  IN  /\ secrets' = IF config.err = "" THEN Saved(config.files) ELSE secrets
      /\ call' = StoreCall("removeTrackedFile", file, "", NoLibCall.wrapped, config.err)
      /\ UNCHANGED <<attrs, workdir, index, keyring, cmd, run>>

StoreNext ==
  \/ InitSecretsCall /\ UNCHANGED <<cipherVars, git>>
  \/ \E version \in ForeignVersions : ManifestOnDisk(version) /\ UNCHANGED <<cipherVars, git>>
  \/ \E file \in StorePaths, recipient \in Recipients, fileKey \in generateFileKey :
       AddTrackedFile(file, recipient, fileKey) /\ UNCHANGED <<cipherVars, git>>
  \/ \E file \in StorePaths, recipient \in Recipients, fileKey \in generateFileKey :
       AddRecipient(file, recipient, fileKey) /\ UNCHANGED <<cipherVars, git>>
  \/ \E file \in StorePaths : RemoveTrackedFile(file) /\ UNCHANGED <<cipherVars, git>>

StoreInit ==
  /\ secrets = NoSecrets
  /\ attrs = NoAttrs
  /\ workdir = Paths
  /\ index = [f \in Paths \cup {GITATTRIBUTES} |-> NoEntry]
  /\ keyring \in StoreKeyrings
  /\ cmd = Idle(0)
  /\ run = NoRun
  /\ CipherInit
  /\ call = NoLibCall
  /\ git = "ok"

\* ------------------------------------------------------- specifications
RepoInit ==
  /\ secrets = NoSecrets
  /\ attrs = NoAttrs
  /\ workdir = Paths
  /\ index = [f \in Paths \cup {GITATTRIBUTES} |-> NoEntry]
  /\ keyring = <<"alice">>
  /\ cmd = Idle(0)
  /\ run = NoRun
  /\ git = "ok"

Init == RepoInit /\ CipherInit /\ call = NoLibCall

Next ==
  \/ InitSecrets /\ UNCHANGED <<cipherVars, call, git>>
  \/ InitSaved /\ UNCHANGED <<cipherVars, call, git>>
  \/ \E file \in Paths : EncryptCommand(file) /\ UNCHANGED <<cipherVars, call, git>>
  \/ EncryptSaved /\ UNCHANGED <<cipherVars, call, git>>
  \/ EncryptStage /\ UNCHANGED <<cipherVars, call, git>>
  \/ \E file \in Paths, gpgKey \in Recipients : ShareCommand(file, gpgKey) /\ UNCHANGED <<cipherVars, call, git>>
  \/ ShareSaved /\ UNCHANGED <<cipherVars, call, git>>
  \/ \E file \in Paths : RemoveCommand(file) /\ UNCHANGED <<cipherVars, call, git>>
  \/ RemoveSaved /\ UNCHANGED <<cipherVars, call, git>>
  \/ \E action \in {"encrypt", "decrypt"}, file \in Paths, input \in FilterInputs :
       FilterCommand(action, file, input) /\ UNCHANGED <<cipherVars, call, git>>
  \/ \E k \in Keyrings : SwitchHost(k) /\ UNCHANGED <<cipherVars, call, git>>

Spec == Init /\ [][Next]_vars

CipherSpec == Init /\ [][CipherNext]_vars

AttrSpec == Init /\ [][AttrNext]_vars

StoreSpec == StoreInit /\ [][StoreNext]_vars

\* ------------------------------------------- lifecycle on a working host
\* The lifecycle commands as one user runs them in a git working tree, with
\* the user's own `git add` and a git index that may be locked.
\* Paths given on the command line: those of Paths and "./e", another spelling
\* of "e".
LifePaths == Paths \cup {<<".", "/", "e">>}

\* Keyrings of the host: no secret key, alice's, or carol's, whose public key
\* has expired so that gpg refuses to encrypt to it.
LifeKeyrings == {<<>>, <<"alice">>, <<"carol">>}

\* getFileConfig(file): config.files[file] || null.  A FileConfig has the one
\* member `keys`; an inherited function has none.
getFileConfig(file) ==
  LET config == loadSecrets
      at == FindFile(config.files, file)
  IN  IF config.err # "" THEN [err |-> config.err, found |-> FALSE, val |-> [keys |-> <<>>]]
      ELSE IF ~HasFile(config.files, file) THEN [err |-> "", found |-> FALSE, val |-> [keys |-> <<>>]]
      ELSE IF at = 0 THEN [err |-> "", found |-> TRUE, val |-> [keys |-> <<>>]]
      ELSE [err |-> "", found |-> TRUE, val |-> [keys |-> config.files[at].keys]]

\* a < b as Array.prototype.sort compares strings: by code unit, a proper
\* prefix first.
PathBefore(a, b) ==
  LET x == BufferFrom(a)
      y == BufferFrom(b)
      differ == {i \in 1..Min(Len(x), Len(y)) : x[i] # y[i]}
  IN  IF differ = {} THEN Len(x) < Len(y)
      ELSE x[SetMin(differ)] < y[SetMin(differ)]

RECURSIVE SortPaths(_)
SortPaths(S) ==
  IF S = {} THEN <<>>
  ELSE LET first == CHOOSE a \in S : \A b \in S \ {a} : PathBefore(a, b)
       IN  <<first>> \o SortPaths(S \ {first})

\* getTrackedFiles(): Object.keys(config.files).sort()
getTrackedFiles == SortPaths(TrackedPaths)

\* What one status report says; `tracked` is false for "Not tracked".
Report(file, tracked, recipients, fileExists, canDecrypt) ==
  [file |-> file, tracked |-> tracked, recipients |-> recipients,
   fileExists |-> fileExists, canDecrypt |-> canDecrypt]

\* showFileStatus(file): err is the exception it leaves with, if any.
showFileStatus(file) ==
  LET config == getFileConfig(file)
      none == Report(file, FALSE, <<>>, FALSE, FALSE)
  IN  IF config.err # "" THEN [err |-> config.err, val |-> none]
      ELSE IF ~config.found THEN [err |-> "", val |-> none]
      ELSE LET fileExists == access(file)
               canDecrypt == getFileKey(file).err = ""
           IN  IF "recipients" \notin DOMAIN config.val
               THEN [err |-> "TypeError", val |-> none]
               ELSE [err |-> "",
                     val |-> Report(file, TRUE, config.val.recipients, fileExists, canDecrypt)]

\* statusCommand(file), file = <<>> when no argument is given: the exit code
\* and the reports printed in full.
statusCommand(file) ==
  IF ~secretsExists THEN [exit |-> 1, err |-> "NotInitialized", shown |-> {}]
  ELSE IF file # <<>>
  THEN LET r == showFileStatus(file)
       IN  IF r.err # "" THEN [exit |-> 1, err |-> r.err, shown |-> {}]
           ELSE [exit |-> 0, err |-> "", shown |-> {r.val}]
  ELSE IF loadSecrets.err # "" THEN [exit |-> 1, err |-> loadSecrets.err, shown |-> {}]
  ELSE LET files == getTrackedFiles
           thrown == {i \in 1..Len(files) : showFileStatus(files[i]).err # ""}
       IN  IF thrown = {}
           THEN [exit |-> 0, err |-> "",
                 shown |-> {showFileStatus(files[i]).val : i \in 1..Len(files)}]
           ELSE [exit |-> 1, err |-> showFileStatus(files[SetMin(thrown)]).err,
                 shown |-> {showFileStatus(files[i]).val : i \in 1..(SetMin(thrown) - 1)}]

\* `seekgits status [file]`
StatusCommand(file) ==
  /\ cmd.op = "idle"
  /\ cmd' = Idle(statusCommand(file).exit)
  /\ UNCHANGED <<secrets, attrs, workdir, index, keyring, run>>

\* The user runs `git add <file>`.
HostGitAdd(file) ==
  /\ execGit.success
  /\ file \in workdir
  /\ stagedBytes(file).ok
  /\ index' = [index EXCEPT ![file] = [present |-> TRUE, data |-> stagedBytes(file).data]]
  /\ UNCHANGED <<secrets, attrs, workdir, keyring, cmd, run>>

\* Another git process takes .git/index.lock.
LockIndex ==
  /\ git = "ok"
  /\ git' = "locked"
  /\ UNCHANGED <<repoVars, cipherVars, call>>

\* The lock is released (or the stale lock file is removed).
UnlockIndex ==
  /\ git = "locked"
  /\ git' = "ok"
  /\ UNCHANGED <<repoVars, cipherVars, call>>

LifeInit ==
  /\ secrets = NoSecrets
  /\ attrs = NoAttrs
  /\ workdir = Paths
  /\ index = [f \in Paths \cup {GITATTRIBUTES} |-> NoEntry]
  /\ keyring \in LifeKeyrings
  /\ cmd = Idle(0)
  /\ run = NoRun
  /\ git = "ok"
  /\ CipherInit
  /\ call = NoLibCall

LifeNext ==
  \/ InitSecrets /\ UNCHANGED <<cipherVars, call, git>>
  \/ InitSaved /\ UNCHANGED <<cipherVars, call, git>>
  \/ \E file \in LifePaths : EncryptCommand(file) /\ UNCHANGED <<cipherVars, call, git>>
  \/ EncryptSaved /\ UNCHANGED <<cipherVars, call, git>>
  \/ EncryptStage /\ UNCHANGED <<cipherVars, call, git>>
  \/ \E file \in LifePaths, gpgKey \in Recipients : ShareCommand(file, gpgKey) /\ UNCHANGED <<cipherVars, call, git>>
  \/ ShareSaved /\ UNCHANGED <<cipherVars, call, git>>
  \/ \E file \in LifePaths : RemoveCommand(file) /\ UNCHANGED <<cipherVars, call, git>>
  \/ RemoveSaved /\ UNCHANGED <<cipherVars, call, git>>
  \/ \E file \in LifePaths \cup {<<>>} : StatusCommand(file) /\ UNCHANGED <<cipherVars, call, git>>
  \/ \E file \in Paths : HostGitAdd(file) /\ UNCHANGED <<cipherVars, call, git>>
  \/ LockIndex
  \/ UnlockIndex

LifeSpec == LifeInit /\ [][LifeNext]_vars

\* ------------------------------------------------------ frame harness
\* decrypt called directly on what a file may hold: complete frames, frames
\* cut short at any length, and data without the marker.
Frames == {encrypt(p, k).val : p \in Plaintexts, k \in FileKeys}

FrameInputs ==
  {SubArray(f, 0, n) : f \in Frames, n \in 0..(Len(MAGIC_HEADER) + NONCE_SIZE + MaxLen)}
    \cup Plaintexts

\* const decrypted = decrypt(data, fileKey)
DecryptInput(data, k) ==
  /\ ~dec.done
  /\ dec' = [done |-> TRUE, p |-> data, k |-> k, res |-> decrypt(data, k)]
  /\ UNCHANGED <<enc1, enc2>>
  /\ UNCHANGED <<repoVars, call, git>>

FrameNext == \E data \in FrameInputs, k \in FileKeys : DecryptInput(data, k)

FrameSpec == Init /\ [][FrameNext]_vars

\* ------------------------------------------------------- claims on the cipher
\* C1: for every 64-byte FileKey k and every byte string p (the empty string
\* and strings with zero bytes included), decrypt(encrypt(p, k), k) returns
\* exactly p.
C1_RoundTrip ==
  (dec.done /\ dec.k = enc1.k) => (dec.res.err = "" /\ dec.res.val = enc1.p)

C1_Witness ==
  /\ dec.done
  /\ dec.k = enc1.k
  /\ enc1.p = <<0, 255>>
  /\ dec.res.val = <<0, 255>>

C9_Injective ==
  (enc1.done /\ enc2.done /\ enc1.k = enc2.k /\ enc1.p # enc2.p)
    => enc1.res.val # enc2.res.val

C9_Witness ==
  /\ enc1.done
  /\ enc2.done
  /\ enc1.k = enc2.k
  /\ enc1.p = <<0>>
  /\ enc2.p = <<>>

\* C10: encrypt(p, k) is MAGIC, then the 32-byte nonce, then len(p) bytes of
\* ciphertext: 42 + len(p) bytes in all, recognized by isEncrypted.
C10_FrameLayout ==
  enc1.done =>
    /\ enc1.res.err = ""
    /\ Len(enc1.res.val) = 42 + Len(enc1.p)
    /\ SubSeq(enc1.res.val, 1, 10) = MAGIC_HEADER
    /\ SubSeq(enc1.res.val, 11, 42) = HmacSha256(splitFileKey(enc1.k).hmacKey, enc1.p)
    /\ Len(SubSeq(enc1.res.val, 43, Len(enc1.res.val))) = Len(enc1.p)
    /\ isEncrypted(enc1.res.val)

C10_Witness ==
  /\ enc1.done
  /\ enc1.p = <<>>
  /\ Len(enc1.res.val) = 42

\* ------------------------------------------------- claims on the filter
\* Inputs the filter claims are checked on in every reachable state: the run
\* inputs, an empty file, the bare magic marker, binary data.
CheckInputs == FilterInputs \cup {<<>>, MAGIC_HEADER, <<0, 255>>}

clean(file, x) == filterCommand("encrypt", file, x)

smudge(file, x) == filterCommand("decrypt", file, x)

\* C3: the clean filter never discards content: whatever error occurs during
\* the invocation, stdout receives the original input bytes unchanged, and a
\* non-empty input never ends with nothing written.
C3_CleanNeverDiscards ==
  (run.done /\ run.action = "encrypt" /\ run.err # "")
    => (run.out = run.input /\ (run.input # <<>> => run.out # <<>>))

\* C4: in clean mode, when the manifest is missing, or the path is not
\* tracked, or the input begins with MAGIC, stdout equals the input and the
\* exit code is 0.
C4_CleanPassThrough ==
  \A f \in Paths, x \in CheckInputs :
    (\/ ~secretsExists
     \/ (isFileTracked(f).err = "" /\ ~isFileTracked(f).val)
     \/ isEncrypted(x))
      => (clean(f, x).out = x /\ clean(f, x).exit = 0)

\* C5: clean is idempotent: for every path and input x, clean of clean's
\* output is clean's output, whether or not the FileKey can be unwrapped.
C5_CleanIdempotent ==
  \A f \in Paths, x \in CheckInputs :
    clean(f, clean(f, x).out).out = clean(f, x).out

C5_Witness ==
  /\ run.done
  /\ run.action = "encrypt"
  /\ run.err = ""
  /\ ~isEncrypted(run.input)
  /\ isEncrypted(run.out)
  /\ clean(run.file, run.input).out = run.out
  /\ clean(run.file, run.out).out = run.out

\* The bytes of `[ENCRYPTED: Cannot decrypt ` and of `[ENCRYPTED: cannot decrypt `
C6_CapitalPrefix ==
  <<91, 69, 78, 67, 82, 89, 80, 84, 69, 68, 58, 32,
    67, 97, 110, 110, 111, 116, 32, 100, 101, 99, 114, 121, 112, 116, 32>>

C6_LowerPrefix ==
  <<91, 69, 78, 67, 82, 89, 80, 84, 69, 68, 58, 32,
    99, 97, 110, 110, 111, 116, 32, 100, 101, 99, 114, 121, 112, 116, 32>>

\* C6 (as amended): smudge on a frame for a tracked path P none of whose
\* wrapped keys can be unwrapped writes exactly `[ENCRYPTED: Cannot decrypt P]`
\* and a newline.
C6_PlaceholderCapital ==
  (run.done /\ run.action = "decrypt" /\ isEncrypted(run.input) /\ run.err = "NoAccess")
    => run.out = C6_CapitalPrefix \o BufferFrom(run.file) \o <<93, 10>>

\* C6 (as claimed): the line written is `[ENCRYPTED: cannot decrypt P]` and a
\* newline.
C6_PlaceholderLower ==
  (run.done /\ run.action = "decrypt" /\ isEncrypted(run.input) /\ run.err = "NoAccess")
    => run.out = C6_LowerPrefix \o BufferFrom(run.file) \o <<93, 10>>

C6_Witness ==
  /\ run.done
  /\ run.action = "decrypt"
  /\ isEncrypted(run.input)
  /\ run.err = "NoAccess"
  /\ run.file = <<"e">>
  /\ Len(run.out) = 30

\* Whether the caller can unwrap the FileKey of tracked path f.
CanUnwrap(f) ==
  /\ isFileTracked(f).err = ""
  /\ isFileTracked(f).val
  /\ getFileKey(f).err = ""

\* C7 (as amended): for a tracked path whose FileKey the caller can unwrap,
\* smudge(clean(x)) = x for every x that does not begin with MAGIC.
C7_RoundTripOfPlaintext ==
  \A f \in Paths, x \in CheckInputs :
    (CanUnwrap(f) /\ ~isEncrypted(x)) => smudge(f, clean(f, x).out).out = x

\* C7 (as claimed): for a tracked path whose FileKey the caller can unwrap,
\* smudge(clean(x)) = x for every byte string x.
C7_RoundTripOfAnyInput ==
  \A f \in Paths, x \in CheckInputs :
    CanUnwrap(f) => smudge(f, clean(f, x).out).out = x

C7_Witness ==
  /\ run.done
  /\ run.action = "decrypt"
  /\ run.err = ""
  /\ CanUnwrap(run.file)
  /\ run.input = clean(run.file, WorkContent).out
  /\ isEncrypted(run.input)
  /\ run.out = WorkContent

\* C8: after any sequence of completed lifecycle operations on an initialized
\* repository, the paths of the manifest are the paths listFiltered returns.
C8_SamePathSet ==
  (cmd.op = "idle" /\ secrets.st = "ok")
    => TrackedPaths = {getFilteredFiles[i] : i \in 1..Len(getFilteredFiles)}

\* C11: in smudge (and textconv) mode, whenever the input does not begin with
\* MAGIC, stdout equals the input byte for byte and the exit code is 0, for
\* tracked and untracked paths alike.
C11_SmudgePlainPassThrough ==
  \A f \in Paths, x \in CheckInputs :
    ~isEncrypted(x) => (smudge(f, x).out = x /\ smudge(f, x).exit = 0)

\* ------------------------------------------- claims on the attribute file
\* Whether `text` has `line` as one of its lines: it starts the text or
\* follows a newline, and ends the text or is followed by a newline.
HasLine(text, line) ==
  \E i \in 1..(Len(text) - Len(line) + 1) :
    /\ SubSeq(text, i, i + Len(line) - 1) = line
    /\ (i = 1 \/ text[i - 1] = "\n")
    /\ (i + Len(line) - 1 = Len(text) \/ text[i + Len(line)] = "\n")

\* The line `P filter=seekgits diff=seekgits`
ExactLine(P) ==
  P \o <<" ", "f", "i", "l", "t", "e", "r", "=", "s", "e", "e", "k", "g", "i", "t", "s",
         " ", "d", "i", "f", "f", "=", "s", "e", "e", "k", "g", "i", "t", "s">>

\* C12: hasFilter(P) is true if and only if the attribute file contains the
\* exact line `P filter=seekgits diff=seekgits`; a path that only ends or
\* begins the path of another line does not match.
C12_HasFilterExact ==
  \A P \in AttrPaths :
    hasFilter(P) <=> (attrs.exists /\ HasLine(attrs.content, ExactLine(P)))

C12_Witness ==
  /\ attrs.exists
  /\ attrs.content = ExactLine(<<"x", "e">>) \o <<"\n">>
  /\ ~hasFilter(<<"e">>)
  /\ hasFilter(<<"x", "e">>)

\* The lines of a text: its pieces between newlines, a final newline ending
\* the last line rather than starting another.
LinesOf(text) ==
  LET pieces == Split(text, "\n")
  IN  IF pieces[Len(pieces)] = <<>> THEN SubSeq(pieces, 1, Len(pieces) - 1) ELSE pieces

NonBlankLines(lines) == Filter(lines, {i \in 1..Len(lines) : NotBlank(lines[i])})

IsSpace(c) == c \in {" ", "\t"}

\* The whitespace-separated tokens of a line.
Tokens(line) ==
  LET starts == Sorted({i \in 1..Len(line) :
                          ~IsSpace(line[i]) /\ (i = 1 \/ IsSpace(line[i - 1]))})
  IN  [k \in 1..Len(starts) |->
         SubSeq(line, starts[k],
                SetMin({j \in starts[k]..Len(line) : j = Len(line) \/ IsSpace(line[j + 1])}))]

\* A line whose first token is P and that has the token filter=seekgits.
IsFilterLineOf(line, P) ==
  LET tokens == Tokens(line)
  IN  /\ Len(tokens) > 0
      /\ tokens[1] = P
      /\ \E t \in 1..Len(tokens) :
           tokens[t] = <<"f", "i", "l", "t", "e", "r", "=", "s", "e", "e", "k", "g", "i", "t", "s">>

\* C13: removeFilter(P) removes exactly the lines whose first
\* whitespace-separated token is P and which have the token filter=seekgits,
\* leaves every other line as it was, and deletes the file when no line
\* remains. (Blank lines are left out of the comparison.)
C13_RemoveExactly ==
  call.op = "removeFilter" =>
    LET before == NonBlankLines(LinesOf(call.attrs.content))
        expected == Filter(before, {i \in 1..Len(before) : ~IsFilterLineOf(before[i], call.file)})
    IN  /\ NonBlankLines(LinesOf(attrs.content)) = expected
        /\ attrs.exists <=> (expected # <<>>)

\* C14: addFilter(P) appends the exact line once when it is absent, keeps
\* all existing content, leaves the file ending with a newline, and changes
\* nothing when the line is already there (so that a second addFilter(P)
\* changes nothing and the line never appears twice).
C14_AddFilterPreserves ==
  call.op = "addFilter" =>
    LET P == call.file
        had == call.attrs.exists /\ HasLine(call.attrs.content, ExactLine(P))
        before == LinesOf(call.attrs.content)
        after == LinesOf(attrs.content)
    IN  /\ attrs.exists /\ HasLine(attrs.content, ExactLine(P))
        /\ had => attrs = call.attrs
        /\ ~had => /\ after = Append(before, ExactLine(P))
                   /\ attrs.content[Len(attrs.content)] = "\n"

\* ------------------------------------------- claims on the config store
\* The content of a manifest: its paths, each with its set of keys.
Entries(files) ==
  {[path |-> files[i].path,
    keys |-> {files[i].keys[j] : j \in 1..Len(files[i].keys)}] : i \in 1..Len(files)}

EntryOf(entries, path) == CHOOSE e \in entries : e.path = path

\* C15: a config-store mutation whose structural precondition fails returns
\* its error (AlreadyTracked; NotTracked; RecipientDuplicate) and leaves the
\* manifest unchanged; otherwise it inserts or removes exactly the named
\* entry.
C15_StoreMutations ==
  (call.op \in {"addTrackedFile", "addRecipient", "removeTrackedFile"} /\ call.secrets.st = "ok")
    => LET before == Entries(call.secrets.files)
           after == Entries(secrets.files)
           tracked == \E e \in before : e.path = call.file
           key == [recipient |-> call.recipient, wrapped |-> call.wrapped]
           fails(err) == call.err = err /\ secrets = call.secrets
       IN  /\ call.op = "addTrackedFile" =>
                IF tracked THEN fails("AlreadyTracked")
                ELSE /\ call.err = ""
                     /\ after = before \cup {[path |-> call.file, keys |-> {key}]}
           /\ call.op = "addRecipient" =>
                IF ~tracked THEN fails("NotTracked")
                ELSE LET e == EntryOf(before, call.file) IN
                     IF \E k \in e.keys : k.recipient = call.recipient
                     THEN fails("RecipientDuplicate")
                     ELSE /\ call.err = ""
                          /\ after = (before \ {e}) \cup {[e EXCEPT !.keys = @ \cup {key}]}
           /\ call.op = "removeTrackedFile" =>
                IF ~tracked THEN fails("NotTracked")
                ELSE /\ call.err = ""
                     /\ after = before \ {EntryOf(before, call.file)}

\* The wrapped entries of a path the manifest holds, in their stored order.
KeysOf(path) == secrets.files[FindFile(secrets.files, path)].keys

Unwraps(key) == gpgDecrypt(key.wrapped).err = ""

\* C16: getFileKey(path) tries the wrapped entries of path in their stored
\* order and returns the first unwrap that succeeds; it fails, with NoAccess
\* and the full recipient list, only when every entry fails: it succeeds if
\* and only if at least one entry can be unwrapped on this host.
C16_FirstUnwrap ==
  secrets.st = "ok" =>
    \A path \in TrackedPaths :
      LET keys == KeysOf(path)
          r == getFileKey(path)
      IN  /\ r.err = "" <=> \E i \in 1..Len(keys) : Unwraps(keys[i])
          /\ r.err = "" =>
               \E i \in 1..Len(keys) :
                 /\ Unwraps(keys[i])
                 /\ \A j \in 1..(i - 1) : ~Unwraps(keys[j])
                 /\ r.val = keys[i].wrapped.data
          /\ r.err # "" =>
               /\ r.err = "NoAccess"
               /\ r.tried = [i \in 1..Len(keys) |-> keys[i].recipient]

C16_Witness ==
  /\ secrets.st = "ok"
  /\ \E path \in TrackedPaths :
       /\ Len(KeysOf(path)) = 2
       /\ ~Unwraps(KeysOf(path)[1])
       /\ Unwraps(KeysOf(path)[2])
       /\ KeysOf(path)[1].wrapped.data # KeysOf(path)[2].wrapped.data
       /\ getFileKey(path).err = ""
       /\ getFileKey(path).val = KeysOf(path)[2].wrapped.data

\* C17: a process that loads the manifest while another process is saving it
\* gets the complete previous or the complete new content, never a truncated
\* or partial document; and a save that does not complete leaves the prior
\* content in place.
C17_AtomicSave ==
  /\ loadSecrets.err # "FailedToRead"
  /\ run.done => run.err # "FailedToRead"

\* The schema version initSecrets writes, the only one this tool knows.
RecognizedVersion == 1

\* C18: load fails with NotInitialized when the manifest file is absent and
\* with CorruptManifest when the bytes do not parse or the schema version is
\* not the recognized one; it never returns a manifest whose version is
\* unrecognized or missing.
C18_LoadValidates ==
  /\ secrets.st = "absent" => loadSecrets.err = "NotFound"
  /\ secrets.st = "partial" => loadSecrets.err = "FailedToRead"
  /\ (secrets.st = "ok" /\ secrets.version # RecognizedVersion) => loadSecrets.err # ""
  /\ loadSecrets.err = "" => loadSecrets.version = RecognizedVersion

\* The recipients in lexicographic order.
RecipientOrder == <<"alice", "bob">>

RecipientRank(recipient) == CHOOSE i \in 1..Len(RecipientOrder) : RecipientOrder[i] = recipient

\* C19: listRecipients(path) returns the recipients of a tracked path sorted
\* lexicographically, whatever the order in which they were added.
C19_RecipientsSorted ==
  secrets.st = "ok" =>
    \A path \in TrackedPaths :
      LET r == getRecipients(path)
      IN  /\ r.err = ""
          /\ {r.val[i] : i \in 1..Len(r.val)} = {k.recipient : k \in EntryOf(Entries(secrets.files), path).keys}
          /\ \A i, j \in 1..Len(r.val) : i < j => RecipientRank(r.val[i]) < RecipientRank(r.val[j])

\* The orders in which the elements of a list can stand.
Orders(list) ==
  {[i \in 1..Len(list) |-> list[p[i]]] :
     p \in {q \in [1..Len(list) -> 1..Len(list)] : \A i, j \in 1..Len(list) : q[i] = q[j] => i = j}}

\* The manifests of the same content as `files`: the entries and, in each
\* entry, the keys in any order of insertion.
RECURSIVE SameContent(_)
SameContent(files) ==
  IF files = <<>> THEN {<<>>}
  ELSE LET heads == {[Head(files) EXCEPT !.keys = ks] : ks \in Orders(Head(files).keys)}
           tails == SameContent(Tail(files))
       IN  UNION {Orders(<<h>> \o t) : h \in heads, t \in tails}

\* C20: the bytes written by save depend only on the manifest's content, not
\* on the order in which entries were inserted: a manifest of the same
\* paths, recipients and wrapped keys, built in another order, is written
\* as the same bytes.
C20_StableBytes ==
  secrets.st = "ok" =>
    \A other \in SameContent(secrets.files) :
      JsonStringify(secrets.version, other) = JsonStringify(secrets.version, secrets.files)

\* ------------------------------------------- claims on the lifecycle
\* C21: a start-tracking that fails (repository not initialized, path missing,
\* path already tracked, no default identity, wrapping to the default
\* recipient refused) leaves the manifest and the attribute file as they were;
\* and the manifest write of a start-tracking begins only with a generated
\* FileKey already wrapped to the default recipient, which is the entry it
\* writes.
C21_FailedStartTracking ==
  [][/\ (cmd.op = "idle" /\ cmd'.op = "idle" /\ cmd'.exit = 1)
          => (secrets' = secrets /\ attrs' = attrs)
     /\ (cmd.op = "idle" /\ cmd'.op = "encrypt")
          => /\ attrs' = attrs
             /\ \E fileKey \in generateFileKey :
                  LET wrapped == gpgEncrypt(fileKey, getDefaultKeyId)
                  IN  /\ wrapped.err = ""
                      /\ cmd'.pending =
                           Append(secrets.files,
                                  [path |-> cmd'.file,
                                   keys |-> <<[recipient |-> getDefaultKeyId,
                                               wrapped |-> wrapped.val]>>])]_vars

\* A host whose default identity gpg cannot wrap to: start-tracking of an
\* existing, untracked path in an initialized repository has failed there.
C21_Witness ==
  /\ keyring = <<"carol">>
  /\ gpgEncrypt(Key(1, 1), getDefaultKeyId).err # ""
  /\ secrets.st = "ok"
  /\ secrets.files = <<>>
  /\ attrs = NoAttrs
  /\ workdir = Paths
  /\ cmd = Idle(1)

\* The paths of a list of manifest entries.
PathsOf(files) == {files[i].path : i \in 1..Len(files)}

\* C22: a stop-tracking(P) that succeeds removes P's entry from the manifest
\* and nothing else of it, leaves no attribute line of P, clears P's entry in
\* the git index and deletes the working file P; the attribute lines of the
\* paths still tracked are unchanged.
C22_StopTracking ==
  [][/\ (cmd.op = "idle" /\ cmd'.op = "remove")
          => /\ cmd'.file \notin PathsOf(cmd'.pending)
             /\ Entries(cmd'.pending)
                  = {e \in Entries(secrets.files) : e.path # cmd'.file}
     /\ (cmd.op = "remove" /\ cmd'.op = "idle")
          => /\ cmd'.exit = 0
             /\ secrets'.st = "ok"
             /\ secrets'.files = cmd.pending
             /\ ~HasLine(attrs'.content, ExactLine(cmd.file))
             /\ ~index'[Resolve(cmd.file)].present
             /\ Resolve(cmd.file) \notin workdir'
             /\ \A Q \in PathsOf(cmd.pending) :
                  HasLine(attrs.content, ExactLine(Q))
                    => HasLine(attrs'.content, ExactLine(Q))]_vars

\* C23: a lifecycle command ends with exit code 0 only when all of its steps
\* succeeded, its git invocations included: the staging step of encrypt and
\* the index-clearing step of remove end the command with exit code 0 only
\* when git itself succeeded.
C23_ExitCodeTellsFailure ==
  [][(cmd.op \in {"stage", "remove"} /\ cmd'.op = "idle" /\ cmd'.exit = 0)
       => execGit.success]_vars

\* What status is to say of a tracked path: its recorded recipients, whether
\* the working file exists, whether this host can unwrap a FileKey.
Reported(rep, path) ==
  /\ rep.file = path
  /\ rep.tracked
  /\ {rep.recipients[i] : i \in 1..Len(rep.recipients)}
       = {KeysOf(path)[i].recipient : i \in 1..Len(KeysOf(path))}
  /\ rep.fileExists = access(path)
  /\ rep.canDecrypt = (\E i \in 1..Len(KeysOf(path)) : Unwraps(KeysOf(path)[i]))

\* C24: status(path) on a tracked path completes without error and reports
\* the recipients recorded for the path, whether the working file exists and
\* whether the caller can unwrap a FileKey; status without an argument does
\* so for every tracked path.
C24_StatusReports ==
  secrets.st = "ok" =>
    /\ \A path \in TrackedPaths :
         LET r == statusCommand(path)
         IN  /\ r.exit = 0
             /\ r.err = ""
             /\ \E rep \in r.shown : Reported(rep, path)
    /\ LET all == statusCommand(<<>>)
       IN  /\ all.exit = 0
           /\ all.err = ""
           /\ \A path \in TrackedPaths : \E rep \in all.shown : Reported(rep, path)

\* validateFilePath(filepath): no absolute path, no "..", no blank path
validateFilePath(filepath) ==
  /\ ~(StartsWith(filepath, <<"/">>) \/ Includes(filepath, <<".", ".">>))
  /\ NotBlank(filepath)

\* normalizeFilePath(filepath): a leading "./" is removed
normalizeFilePath(filepath) ==
  IF StartsWith(filepath, <<".", "/">>) THEN SubSeq(filepath, 3, Len(filepath))
  ELSE filepath

\* C25: every path stored in the manifest is normalized (no leading "./", not
\* absolute, no parent-directory component), so no file is tracked under two
\* spellings.
C25_PathsNormalized ==
  secrets.st = "ok" =>
    /\ \A path \in TrackedPaths :
         /\ validateFilePath(path)
         /\ normalizeFilePath(path) = path
    /\ \A p \in TrackedPaths, q \in TrackedPaths : Resolve(p) = Resolve(q) => p = q

\* All wrapped keys of one manifest entry hold the same generated 64-byte key.
OneFileKey(keys) ==
  \A i \in 1..Len(keys), j \in 1..Len(keys) :
    /\ keys[i].wrapped.data = keys[j].wrapped.data
    /\ keys[i].wrapped.data \in generateFileKey
    /\ Len(keys[i].wrapped.data) = FILE_KEY_SIZE

\* C26: after any sequence of start-tracking and add-recipient, all wrapped
\* keys stored for one path unwrap to the same 64-byte FileKey; an
\* add-recipient writes only when the caller can unwrap an existing entry, and
\* what it adds is that FileKey wrapped to the new recipient.
C26_OneFileKeyPerPath ==
  [][/\ secrets'.st = "ok"
          => \A i \in 1..Len(secrets'.files) : OneFileKey(secrets'.files[i].keys)
     /\ (cmd.op = "idle" /\ cmd'.op = "share")
          => LET fileKey == getFileKey(cmd'.file)
                 at == FindFile(secrets.files, cmd'.file)
             IN  /\ fileKey.err = ""
                 /\ \E gpgKey \in Recipients :
                      cmd'.pending =
                        [secrets.files EXCEPT ![at].keys =
                           Append(@, [recipient |-> gpgKey,
                                      wrapped |-> [to |-> gpgKey, data |-> fileKey.val]])]]_vars

\* A path shared by bob, whose own entry is the second one, with a third
\* party: both entries wrap the FileKey alice generated.
C26_Witness ==
  /\ secrets.st = "ok"
  /\ keyring = <<"bob">>
  /\ \E path \in TrackedPaths :
       /\ Len(KeysOf(path)) = 2
       /\ KeysOf(path)[1].recipient = "bob"
       /\ KeysOf(path)[2].recipient = "alice"
       /\ KeysOf(path)[1].wrapped.data = KeysOf(path)[2].wrapped.data
       /\ clean(path, WorkContent).out
            = encrypt(WorkContent, KeysOf(path)[2].wrapped.data).val

C29_WrongKeyGarbage ==
  /\ (dec.done /\ dec.k # enc1.k)
       => (dec.res.err = "" /\ dec.res.val # enc1.p)
  /\ (enc1.done /\ enc2.done /\ enc1.p = enc2.p /\ enc1.k # enc2.k)
       => enc1.res.val # enc2.res.val

\* C29, amended: decrypting a frame with a FileKey other than the one it was
\* encrypted with raises no error and returns as many bytes as the plaintext
\* has; it returns the plaintext itself when the two keys have the same AES
\* half or the plaintext is empty.  Two FileKeys with the same HMAC half
\* encrypt the empty plaintext to the same frame.
C29_WrongKeyNoError ==
  /\ (dec.done /\ dec.k # enc1.k)
       => /\ dec.res.err = ""
          /\ Len(dec.res.val) = Len(enc1.p)
          /\ (splitFileKey(dec.k).aesKey = splitFileKey(enc1.k).aesKey \/ enc1.p = <<>>)
               => dec.res.val = enc1.p
  /\ (/\ enc1.done
      /\ enc2.done
      /\ enc1.k # enc2.k
      /\ splitFileKey(enc1.k).hmacKey = splitFileKey(enc2.k).hmacKey
      /\ enc1.p = <<>>
      /\ enc2.p = <<>>)
       => enc1.res.val = enc2.res.val

\* A frame decrypted under a key that differs in the HMAC half only.
C29_Witness ==
  /\ enc1.done
  /\ dec.done
  /\ enc1.k = Key(1, 1)
  /\ dec.k = Key(1, 2)
  /\ enc1.p = <<0, 255>>
  /\ dec.res.err = ""
  /\ dec.res.val = enc1.p

\* C30: decrypt accepts only complete frames: an input that does not begin
\* with the marker fails with the missing-header error, an input that begins
\* with it but is shorter than 42 bytes is rejected with an error, and
\* whenever decrypt returns, its output is 42 bytes shorter than its input.
C30_CompleteFramesOnly ==
  dec.done =>
    /\ SubArray(dec.p, 0, Len(MAGIC_HEADER)) # MAGIC_HEADER
         => dec.res.err = "MissingHeader"
    /\ (/\ SubArray(dec.p, 0, Len(MAGIC_HEADER)) = MAGIC_HEADER
        /\ Len(dec.p) < Len(MAGIC_HEADER) + NONCE_SIZE)
         => dec.res.err # ""
    /\ dec.res.err = ""
         => Len(dec.res.val) = Len(dec.p) - (Len(MAGIC_HEADER) + NONCE_SIZE)
====
